---- MODULE Spec2Model ----
(***************************************************************************)
(* OllamaHandler (src/src/api/providers/ollama.ts): the request lifecycle  *)
(* of createMessage -- lazy client creation, the race of the provider      *)
(* request against the timeout timer, the translation of chunks into       *)
(* text/usage events, and the two nested catch blocks.                     *)
(*                                                                         *)
(* An optional JavaScript value is a sequence of length 0 (undefined) or 1.*)
(* The JavaScript event loop runs one callback to completion, so every     *)
(* action is one callback: it starts at a suspension point of the          *)
(* generator (a call of next(), a promise settling, the timer firing) and  *)
(* runs to the next suspension point.                                      *)
(***************************************************************************)
EXTENDS Integers, Sequences, FiniteSets, TLC

VARIABLES
    options,      \* this.options (line 18), fixed at construction
    client,       \* this.client (line 19): <<>> or <<handle>>
    built,        \* number of Ollama clients constructed so far (line 39)
    callers,      \* the call slots the environment uses
    upstream,     \* the chunks the provider may send
    pc,           \* per call: where the generator is suspended
    callNo,       \* per call slot: number of createMessage calls started
    timer,        \* per call: the setTimeout of line 56
    timerMs,      \* per call: the delay handed to setTimeout (line 56)
    request,      \* per call: the argument of client.chat (lines 60-67)
    api,          \* per call: the promise returned by client.chat (line 60)
    race,         \* per call: which promise settled Promise.race (line 70)
    stream,       \* per call: the chunk stream of the provider
    consumed,     \* per call: chunks the for-await loop has received
    delivered,    \* per call: events yielded to the caller
    discarded,    \* per call: chunks an abandoned request produced
    streamError,  \* per call: binding of the inner catch (line 90)
    error,        \* per call: binding of the outer catch (line 94)
    thrown,       \* per call: the error that left createMessage
    resolved      \* the results getModel has returned so far

vars == <<options, client, built, callers, upstream, pc, callNo, timer, timerMs,
          request, api, race, stream, consumed, delivered, discarded, streamError,
          error, thrown, resolved>>

callVars == <<pc, callNo, timer, timerMs, request, api, race, stream, consumed,
              delivered, discarded, streamError, error, thrown>>

envVars == <<options, callers, upstream>>

(***************************************************************************)
(* Bounds of the model.                                                    *)
(***************************************************************************)
MaxChunks == 2
MaxCalls == 2

Calls == {"c1", "c2"}

(***************************************************************************)
(* JavaScript values.                                                      *)
(***************************************************************************)
None == <<>>
Some(v) == <<v>>

\* s.includes(t) on strings
Includes(s, t) ==
    \E i \in 1..(Len(s) - Len(t) + 1) : SubSeq(s, i, i + Len(t) - 1) = t

\* truthiness of an optional string: undefined and "" are falsy
TruthyStr(o) == o # None /\ o[1] # ""

\* truthiness of an optional number: undefined and 0 are falsy
TruthyNum(o) == o # None /\ o[1] # 0

\* `${v}` of an optional string
Template(o) == IF o = None THEN "undefined" ELSE o[1]

\* the digits of r (0..999) as the fraction of r/1000, trailing zeros dropped
Fraction(r) ==
    LET d1 == r \div 100
        d2 == (r \div 10) % 10
        d3 == r % 10
    IN  IF d3 # 0 THEN ToString(d1) \o ToString(d2) \o ToString(d3)
        ELSE IF d2 # 0 THEN ToString(d1) \o ToString(d2)
        ELSE ToString(d1)

\* `${ms / 1000}` for a non-negative integer ms
SecondsText(ms) ==
    IF ms % 1000 = 0 THEN ToString(ms \div 1000)
    ELSE ToString(ms \div 1000) \o "." \o Fraction(ms % 1000)

(***************************************************************************)
(* JavaScript numbers made from strings.  A number is NaN or a decimal     *)
(* kept in thousandths, so that a fraction of up to three digits is exact. *)
(***************************************************************************)
NaN == [nan |-> TRUE, milli |-> 0]
Dec(k) == [nan |-> FALSE, milli |-> k]
Whole(n) == Dec(1000 * n)

\* truthiness of a number: NaN and 0 are falsy
TruthyNumber(n) == ~n.nan /\ n.milli # 0

Char(s, i) == SubSeq(s, i, i)
IsDigit(ch) == \E d \in 0..9 : ToString(d) = ch
DigitOf(ch) == CHOOSE d \in 0..9 : ToString(d) = ch
AllDigits(s) == \A i \in 1..Len(s) : IsDigit(Char(s, i))

RECURSIVE DigitsValue(_)
DigitsValue(s) ==
    IF s = "" THEN 0
    ELSE 10 * DigitsValue(SubSeq(s, 1, Len(s) - 1)) + DigitOf(Char(s, Len(s)))

\* the white space StringToNumber strips from both ends
RECURSIVE Trim(_)
Trim(s) ==
    IF s = "" THEN s
    ELSE IF Char(s, 1) = " " THEN Trim(SubSeq(s, 2, Len(s)))
    ELSE IF Char(s, Len(s)) = " " THEN Trim(SubSeq(s, 1, Len(s) - 1))
    ELSE s

\* an unsigned decimal literal: digits, digits.digits, digits. or .digits
\* (fractions of at most three digits)
UnsignedDecimal(u) ==
    LET dots == {i \in 1..Len(u) : Char(u, i) = "."}
    IN  IF dots = {}
        THEN IF u # "" /\ AllDigits(u) THEN Whole(DigitsValue(u)) ELSE NaN
        ELSE LET p == CHOOSE i \in dots : \A j \in dots : i <= j
                 a == SubSeq(u, 1, p - 1)
                 b == SubSeq(u, p + 1, Len(u))
             IN  IF AllDigits(a) /\ AllDigits(b) /\ (a # "" \/ b # "") /\ Len(b) <= 3
                 THEN Dec(1000 * DigitsValue(a) + DigitsValue(SubSeq(b \o "000", 1, 3)))
                 ELSE NaN

\* Number(s) of a string: white space stripped, "" is 0, an optional sign,
\* a decimal literal, and NaN for everything else
StringToNumber(s) ==
    LET t == Trim(s)
    IN  IF t = "" THEN Whole(0)
        ELSE IF Char(t, 1) = "-"
        THEN LET n == UnsignedDecimal(SubSeq(t, 2, Len(t)))
             IN  IF n.nan THEN NaN ELSE Dec(0 - n.milli)
        ELSE IF Char(t, 1) = "+" THEN UnsignedDecimal(SubSeq(t, 2, Len(t)))
        ELSE UnsignedDecimal(t)

\* Number(v) of an optional string: Number(undefined) is NaN
Number(o) == IF o = None THEN NaN ELSE StringToNumber(o[1])

(***************************************************************************)
(* Inputs: configurations, provider chunks, upstream errors.               *)
(***************************************************************************)
\* An Error object: its message, its status, and the place that created it.
Err(m, st, site) == [message |-> m, status |-> st, site |-> site]

Config(t) ==
    [ollamaBaseUrl |-> None, ollamaApiKey |-> None, ollamaModelId |-> None,
     ollamaApiOptionsCtxNum |-> None, requestTimeoutMs |-> t]

\* OllamaHandlerOptions (lines 9-15)
Configs ==
    {Config(t) : t \in {None, Some(0), Some(100), Some(1500)}}
    \cup {[ollamaBaseUrl |-> Some("http://gpu:11434"), ollamaApiKey |-> Some("k"),
           ollamaModelId |-> Some("llama3"), ollamaApiOptionsCtxNum |-> Some("8192"),
           requestTimeoutMs |-> Some(30000)]}

\* chunk.message: absent, present without content, present with a string
Messages == {None, Some([content |-> None]), Some([content |-> Some("")]),
             Some([content |-> Some("Hi")])}

\* <<eval_count, prompt_eval_count>> of a chunk
Counts == {<<None, None>>, <<Some(0), None>>, <<None, Some(12)>>, <<Some(5), Some(12)>>}

\* A chunk of the provider's response, as the loop of lines 73-89 reads it.
Chunks ==
    {[message |-> m, eval_count |-> n[1], prompt_eval_count |-> n[2]] :
        m \in Messages, n \in Counts}

\* Rejections of client.chat
ApiErrors ==
    {Err(m, st, "api") : m \in {None, Some("fetch failed"), Some("socket timed out")},
                         st \in {None, Some(500)}}

\* Errors raised by the chunk stream while it is iterated
StreamErrors ==
    {Err(m, None, "stream") : m \in {None, Some(""), Some("boom"), Some("read timed out")}}

\* Errors thrown by new Ollama(...)
ClientErrors ==
    {Err(m, None, "Ollama") : m \in {None, Some("Invalid URL"), Some("connect timed out")}}

\* The TypeError of reading .content of an undefined chunk.message (line 74)
ContentTypeError ==
    Err(Some("Cannot read properties of undefined (reading 'content')"), None, "L74")

(***************************************************************************)
(* ensureClient (lines 25-45)                                              *)
(***************************************************************************)
\* clientOptions (lines 28-37)
ClientOptions(o) ==
    [host |-> IF TruthyStr(o.ollamaBaseUrl) THEN o.ollamaBaseUrl[1]
              ELSE "http://localhost:11434",
     headers |-> IF TruthyStr(o.ollamaApiKey)
                 THEN Some([Authorization |-> "Bearer " \o o.ollamaApiKey[1]])
                 ELSE None]

\* the error of line 41
ClientCreationError(e) ==
    Err(Some("Error creating Ollama client: " \o Template(e.message)), None, "L41")

(***************************************************************************)
(* getModel (lines 110-117) and the request of client.chat (lines 60-67)   *)
(***************************************************************************)
DefaultContextWindow == 32768

\* openAiModelInfoSaneDefaults of shared/api: the default model metadata
openAiModelInfoSaneDefaults == [contextWindow |-> Whole(DefaultContextWindow)]

\* Variant of ContextWindow: Number(...) without the || 32768
ContextWindowNoFallback(o) == Number(o.ollamaApiOptionsCtxNum)

\* Number(this.options.ollamaApiOptionsCtxNum) || 32768 (line 114)
ContextWindow(o) ==
    LET n == Number(o.ollamaApiOptionsCtxNum)
    IN  IF TruthyNumber(n) THEN n ELSE Whole(DefaultContextWindow)

\* getModel() (lines 110-117)
getModel(o) ==
    [id |-> IF TruthyStr(o.ollamaModelId) THEN o.ollamaModelId[1] ELSE "",
     info |-> IF TruthyStr(o.ollamaApiOptionsCtxNum)
              THEN [openAiModelInfoSaneDefaults EXCEPT !.contextWindow = ContextWindow(o)]
              ELSE openAiModelInfoSaneDefaults]

\* Variant of NumCtx: Number(...) without the || 32768
NumCtxNoFallback(o) == Number(o.ollamaApiOptionsCtxNum)

\* num_ctx: Number(this.options.ollamaApiOptionsCtxNum) || 32768 (line 65)
NumCtx(o) ==
    LET n == Number(o.ollamaApiOptionsCtxNum)
    IN  IF TruthyNumber(n) THEN n ELSE Whole(DefaultContextWindow)

\* the argument of client.chat (lines 60-67); the messages are those of the
\* caller behind the system prompt and play no part here
ChatRequest(o) ==
    [model |-> getModel(o).id, stream |-> TRUE, options |-> [num_ctx |-> NumCtx(o)]]

(***************************************************************************)
(* The timeout (lines 54-57, 96-99)                                        *)
(***************************************************************************)
DefaultTimeoutMs == 30000

\* Variant of TimeoutMs: requestTimeoutMs ?? 30000, which keeps a 0
TimeoutMsNullish(o) ==
    IF o.requestTimeoutMs # None THEN o.requestTimeoutMs[1] ELSE DefaultTimeoutMs

\* this.options.requestTimeoutMs || 30000 (lines 54 and 97)
TimeoutMs(o) ==
    IF TruthyNum(o.requestTimeoutMs) THEN o.requestTimeoutMs[1] ELSE DefaultTimeoutMs

\* `Ollama request timed out after ${timeoutMs / 1000} seconds`
TimeoutMessage(ms) == "Ollama request timed out after " \o SecondsText(ms) \o " seconds"

\* the rejection of the timer (line 56)
TimerError(ms) == Err(Some(TimeoutMessage(ms)), None, "L56")

(***************************************************************************)
(* The translation of one chunk (lines 74-88)                              *)
(***************************************************************************)
\* typeof chunk.message.content === "string" (line 74); message is present
HasText(ch) == ch.message[1].content # None

\* the event of lines 75-78
TextEvent(ch) == [type |-> "text", text |-> ch.message[1].content[1]]

\* chunk.eval_count !== undefined || chunk.prompt_eval_count !== undefined (line 82)
HasUsage(ch) == ch.eval_count # None \/ ch.prompt_eval_count # None

\* n || 0 (lines 85, 86)
OrZero(o) == IF TruthyNum(o) THEN o[1] ELSE 0

\* the event of lines 83-87
UsageEvent(ch) ==
    [type |-> "usage", inputTokens |-> OrZero(ch.prompt_eval_count),
     outputTokens |-> OrZero(ch.eval_count)]

(***************************************************************************)
(* The two catch blocks (lines 90-93 and 94-107)                           *)
(***************************************************************************)
\* Variant of WrapStreamError: the message of the original error is
\* interpolated without the fallback for a missing message.
WrapStreamErrorNoFallback(e) ==
    Err(Some("Ollama stream processing error: " \o Template(e.message)), None, "L92")

\* the error of line 92
WrapStreamError(e) ==
    Err(Some("Ollama stream processing error: "
             \o (IF TruthyStr(e.message) THEN e.message[1] ELSE "Unknown error")),
        None, "L92")

\* error.message && error.message.includes("timed out") (line 96)
IsTimeout(e) == TruthyStr(e.message) /\ Includes(e.message[1], "timed out")

\* Variant of Classify: an error that is not a timeout is thrown as a new
\* Error made of its message
ClassifyRewraps(e, o) ==
    IF IsTimeout(e) THEN Err(Some(TimeoutMessage(TimeoutMs(o))), None, "L98")
    ELSE Err(e.message, None, "L106")

\* what the outer catch throws (lines 96-106)
Classify(e, o) ==
    IF IsTimeout(e) THEN Err(Some(TimeoutMessage(TimeoutMs(o))), None, "L98")
    ELSE e

(***************************************************************************)
(* State                                                                   *)
(***************************************************************************)
Init ==
    /\ options \in Configs
    /\ client = None
    /\ built = 0
    /\ callers = {"c1"}
    /\ upstream = Chunks
    /\ pc = [c \in Calls |-> "idle"]
    /\ callNo = [c \in Calls |-> 0]
    /\ timer = [c \in Calls |-> "none"]
    /\ timerMs = [c \in Calls |-> None]
    /\ request = [c \in Calls |-> None]
    /\ api = [c \in Calls |-> "none"]
    /\ race = [c \in Calls |-> "none"]
    /\ stream = [c \in Calls |-> "none"]
    /\ consumed = [c \in Calls |-> <<>>]
    /\ delivered = [c \in Calls |-> <<>>]
    /\ discarded = [c \in Calls |-> 0]
    /\ streamError = [c \in Calls |-> None]
    /\ error = [c \in Calls |-> None]
    /\ thrown = [c \in Calls |-> None]
    /\ resolved = {}

\* A new invocation of the generator function: nothing of the previous
\* invocation of the slot is visible to it.
NewCall(c) ==
    /\ callNo' = [callNo EXCEPT ![c] = @ + 1]
    /\ consumed' = [consumed EXCEPT ![c] = <<>>]
    /\ delivered' = [delivered EXCEPT ![c] = <<>>]
    /\ discarded' = [discarded EXCEPT ![c] = 0]
    /\ streamError' = [streamError EXCEPT ![c] = None]
    /\ error' = [error EXCEPT ![c] = None]
    /\ stream' = [stream EXCEPT ![c] = "none"]

\* Variant of Yield: the event is collected for later and not handed to the
\* caller at the yield.
YieldBuffered(c, ev, at) ==
    /\ delivered' = [delivered EXCEPT ![c] = @]
    /\ pc' = [pc EXCEPT ![c] = at]

\* yield ev: the event reaches the caller and the generator is suspended
Yield(c, ev, at) ==
    /\ delivered' = [delivered EXCEPT ![c] = Append(@, ev)]
    /\ pc' = [pc EXCEPT ![c] = at]

\* an error leaves createMessage
Throw(c, e) ==
    /\ thrown' = [thrown EXCEPT ![c] = Some(e)]
    /\ pc' = [pc EXCEPT ![c] = "failed"]

\* the outer catch (lines 94-107)
OuterCatch(c, e) ==
    /\ error' = [error EXCEPT ![c] = Some(e)]
    /\ Throw(c, Classify(e, options))

\* Variant of InnerCatch: the error is logged and not thrown again, so the
\* generator returns normally.
InnerCatchSwallows(c, e) ==
    /\ streamError' = [streamError EXCEPT ![c] = Some(e)]
    /\ pc' = [pc EXCEPT ![c] = "done"]
    /\ UNCHANGED <<error, thrown>>

\* the inner catch (lines 90-93); its throw is caught by the outer catch
InnerCatch(c, e) ==
    /\ streamError' = [streamError EXCEPT ![c] = Some(e)]
    /\ OuterCatch(c, WrapStreamError(e))

(***************************************************************************)
(* createMessage, from its first next() to the await of line 70            *)
(***************************************************************************)
\* Variant of EnsureClientThrows: the timer of line 55 is started before
\* ensureClient is called
EnsureClientThrowsAfterTimer(c) ==
    /\ client = None
    /\ \E e \in ClientErrors : Throw(c, ClientCreationError(e))
    /\ NewCall(c)
    /\ timer' = [timer EXCEPT ![c] = "armed"]
    /\ timerMs' = [timerMs EXCEPT ![c] = Some(TimeoutMs(options))]
    /\ request' = [request EXCEPT ![c] = None]
    /\ api' = [api EXCEPT ![c] = "none"]
    /\ race' = [race EXCEPT ![c] = "none"]
    /\ UNCHANGED <<client, built>>

\* ensureClient throws (lines 39-42): the error leaves createMessage at line 49
EnsureClientThrows(c) ==
    /\ client = None
    /\ \E e \in ClientErrors : Throw(c, ClientCreationError(e))
    /\ NewCall(c)
    /\ timer' = [timer EXCEPT ![c] = "none"]
    /\ timerMs' = [timerMs EXCEPT ![c] = None]
    /\ request' = [request EXCEPT ![c] = None]
    /\ api' = [api EXCEPT ![c] = "none"]
    /\ race' = [race EXCEPT ![c] = "none"]
    /\ UNCHANGED <<client, built>>

\* Variant of Launch: ensureClient constructs a client on every call
LaunchFreshClient(c) ==
    /\ client' = Some([id |-> built + 1, options |-> ClientOptions(options)])
    /\ built' = built + 1
    /\ NewCall(c)
    /\ timer' = [timer EXCEPT ![c] = "armed"]
    /\ timerMs' = [timerMs EXCEPT ![c] = Some(TimeoutMs(options))]
    /\ request' = [request EXCEPT ![c] = Some(ChatRequest(options))]
    /\ api' = [api EXCEPT ![c] = "pending"]
    /\ race' = [race EXCEPT ![c] = "pending"]
    /\ pc' = [pc EXCEPT ![c] = "race"]
    /\ thrown' = [thrown EXCEPT ![c] = None]

\* ensureClient returns; the timer is started, the request is sent, and the
\* generator awaits the race (lines 49-70)
Launch(c) ==
    /\ IF client = None
       THEN /\ client' = Some([id |-> built + 1, options |-> ClientOptions(options)])
            /\ built' = built + 1
       ELSE UNCHANGED <<client, built>>
    /\ NewCall(c)
    /\ timer' = [timer EXCEPT ![c] = "armed"]
    /\ timerMs' = [timerMs EXCEPT ![c] = Some(TimeoutMs(options))]
    /\ request' = [request EXCEPT ![c] = Some(ChatRequest(options))]
    /\ api' = [api EXCEPT ![c] = "pending"]
    /\ race' = [race EXCEPT ![c] = "pending"]
    /\ pc' = [pc EXCEPT ![c] = "race"]
    /\ thrown' = [thrown EXCEPT ![c] = None]

CreateMessage(c) ==
    /\ c \in callers
    /\ pc[c] \in {"idle", "done", "failed"}
    /\ callNo[c] < MaxCalls
    /\ (EnsureClientThrows(c) \/ Launch(c))
    /\ UNCHANGED <<envVars, resolved>>

(***************************************************************************)
(* Promise.race (line 70)                                                  *)
(***************************************************************************)
\* Variant of TimerFires: the timeout is enforced for the whole call, so a
\* timer that fires while the stream is being consumed ends the call too.
TimerFiresWholeCall(c) ==
    /\ timer[c] = "armed"
    /\ timer' = [timer EXCEPT ![c] = "fired"]
    /\ IF race[c] = "pending" \/ pc[c] \in {"next", "text", "usage"}
       THEN /\ race' = [race EXCEPT ![c] = IF race[c] = "pending" THEN "timer" ELSE @]
            /\ OuterCatch(c, TimerError(timerMs[c][1]))
       ELSE UNCHANGED <<race, error, thrown, pc>>
    /\ UNCHANGED <<envVars, resolved, client, built, callNo, timerMs, request, api, stream, consumed,
                   delivered, discarded, streamError>>

\* Variant of TimerFires: the callback of the timer runs and rejects nothing
TimerFiresSilently(c) ==
    /\ timer[c] = "armed"
    /\ timer' = [timer EXCEPT ![c] = "fired"]
    /\ UNCHANGED <<envVars, resolved, client, built, pc, callNo, timerMs, request, api, race,
                   stream, consumed, delivered, discarded, streamError, error, thrown>>

\* the timer fires: setTimeout's callback rejects timeoutPromise (line 56)
TimerFires(c) ==
    /\ timer[c] = "armed"
    /\ timer' = [timer EXCEPT ![c] = "fired"]
    /\ IF race[c] = "pending"
       THEN /\ race' = [race EXCEPT ![c] = "timer"]
            /\ OuterCatch(c, TimerError(timerMs[c][1]))
       ELSE UNCHANGED <<race, error, thrown, pc>>
    /\ UNCHANGED <<envVars, resolved, client, built, callNo, timerMs, request, api, stream, consumed,
                   delivered, discarded, streamError>>

\* Variant of ApiResolves: the stream of the request is consumed even when
\* the timer has already settled the race.
ApiResolvesUnraced(c) ==
    /\ api[c] = "pending"
    /\ api' = [api EXCEPT ![c] = "resolved"]
    /\ stream' = [stream EXCEPT ![c] = "open"]
    /\ race' = [race EXCEPT ![c] = IF race[c] = "pending" THEN "api" ELSE @]
    /\ pc' = [pc EXCEPT ![c] = "next"]
    /\ UNCHANGED <<envVars, resolved, client, built, callNo, timer, timerMs, request, consumed,
                   delivered, discarded, streamError, error, thrown>>

\* client.chat resolves with a stream; the winner of the race starts the loop
ApiResolves(c) ==
    /\ api[c] = "pending"
    /\ api' = [api EXCEPT ![c] = "resolved"]
    /\ stream' = [stream EXCEPT ![c] = "open"]
    /\ IF race[c] = "pending"
       THEN /\ race' = [race EXCEPT ![c] = "api"]
            /\ pc' = [pc EXCEPT ![c] = "next"]
       ELSE UNCHANGED <<race, pc>>
    /\ UNCHANGED <<envVars, resolved, client, built, callNo, timer, timerMs, request, consumed,
                   delivered, discarded, streamError, error, thrown>>

\* client.chat rejects
ApiRejects(c) ==
    /\ api[c] = "pending"
    /\ api' = [api EXCEPT ![c] = "rejected"]
    /\ IF race[c] = "pending"
       THEN /\ race' = [race EXCEPT ![c] = "api"]
            /\ \E e \in ApiErrors : OuterCatch(c, e)
       ELSE UNCHANGED <<race, error, thrown, pc>>
    /\ UNCHANGED <<envVars, resolved, client, built, callNo, timer, timerMs, request, stream, consumed,
                   delivered, discarded, streamError>>

\* the stream of a request that lost the race produces a chunk nobody reads
AbandonedChunk(c) ==
    /\ race[c] = "timer"
    /\ stream[c] = "open"
    /\ discarded[c] < MaxChunks
    /\ discarded' = [discarded EXCEPT ![c] = @ + 1]
    /\ UNCHANGED <<envVars, resolved, client, built, pc, callNo, timer, timerMs, request, api, race,
                   stream, consumed, delivered, streamError, error, thrown>>

(***************************************************************************)
(* The loop over the stream (lines 72-93)                                  *)
(***************************************************************************)
\* the usage check of lines 82-88, then the next iteration
UsageStep(c, ch) ==
    IF HasUsage(ch) THEN Yield(c, UsageEvent(ch), "usage")
    ELSE /\ pc' = [pc EXCEPT ![c] = "next"]
         /\ UNCHANGED delivered

\* Variant of Translate: the usage check comes first, and a chunk that
\* yields a usage event yields no text event.
TranslateUsageFirst(c, ch) ==
    IF ch.message = None
    THEN /\ InnerCatch(c, ContentTypeError)
         /\ UNCHANGED delivered
    ELSE /\ IF HasUsage(ch) THEN Yield(c, UsageEvent(ch), "usage")
            ELSE IF HasText(ch) THEN Yield(c, TextEvent(ch), "text")
            ELSE /\ pc' = [pc EXCEPT ![c] = "next"]
                 /\ UNCHANGED delivered
         /\ UNCHANGED <<streamError, error, thrown>>

\* the body of the loop for a chunk just received (lines 74-88)
Translate(c, ch) ==
    IF ch.message = None
    THEN /\ InnerCatch(c, ContentTypeError)
         /\ UNCHANGED delivered
    ELSE /\ IF HasText(ch) THEN Yield(c, TextEvent(ch), "text")
            ELSE UsageStep(c, ch)
         /\ UNCHANGED <<streamError, error, thrown>>

\* the stream delivers a chunk to the loop
ChunkArrives(c) ==
    /\ pc[c] = "next"
    /\ Len(consumed[c]) < MaxChunks
    /\ \E ch \in upstream :
          /\ consumed' = [consumed EXCEPT ![c] = Append(@, ch)]
          /\ Translate(c, ch)
    /\ UNCHANGED <<envVars, resolved, client, built, callNo, timer, timerMs, request, api, race, stream,
                   discarded>>

\* the caller asks for the next event after a text event
ResumeAfterText(c) ==
    /\ pc[c] = "text"
    /\ UsageStep(c, consumed[c][Len(consumed[c])])
    /\ UNCHANGED <<envVars, resolved, client, built, callNo, timer, timerMs, request, api, race, stream,
                   consumed, discarded, streamError, error, thrown>>

\* the caller asks for the next event after a usage event
ResumeAfterUsage(c) ==
    /\ pc[c] = "usage"
    /\ pc' = [pc EXCEPT ![c] = "next"]
    /\ UNCHANGED <<envVars, resolved, client, built, callNo, timer, timerMs, request, api, race, stream,
                   consumed, delivered, discarded, streamError, error, thrown>>

\* the stream is exhausted: the loop ends and createMessage returns
StreamEnds(c) ==
    /\ pc[c] = "next"
    /\ stream' = [stream EXCEPT ![c] = "ended"]
    /\ pc' = [pc EXCEPT ![c] = "done"]
    /\ UNCHANGED <<envVars, resolved, client, built, callNo, timer, timerMs, request, api, race,
                   consumed, delivered, discarded, streamError, error, thrown>>

\* the stream raises while the loop waits for a chunk
StreamRaises(c) ==
    /\ pc[c] = "next"
    /\ stream' = [stream EXCEPT ![c] = "raised"]
    /\ \E e \in StreamErrors : InnerCatch(c, e)
    /\ UNCHANGED <<envVars, resolved, client, built, callNo, timer, timerMs, request, api, race,
                   consumed, delivered, discarded>>

(***************************************************************************)
(* getModel, called by the application at any time (lines 110-117)         *)
(***************************************************************************)
\* Variant of GetModel: the model id is reported only once a client exists
GetModelAfterConnect ==
    /\ resolved' = resolved \cup
          {[getModel(options) EXCEPT !.id = IF client = None THEN "" ELSE @]}
    /\ UNCHANGED <<envVars, client, built, callVars>>

GetModel ==
    /\ resolved' = resolved \cup {getModel(options)}
    /\ UNCHANGED <<envVars, client, built, callVars>>

Next ==
    \/ \E c \in Calls : CreateMessage(c)
    \/ \E c \in Calls : TimerFires(c)
    \/ \E c \in Calls : ApiResolves(c)
    \/ \E c \in Calls : ApiRejects(c)
    \/ \E c \in Calls : AbandonedChunk(c)
    \/ \E c \in Calls : ChunkArrives(c)
    \/ \E c \in Calls : ResumeAfterText(c)
    \/ \E c \in Calls : ResumeAfterUsage(c)
    \/ \E c \in Calls : StreamEnds(c)
    \/ \E c \in Calls : StreamRaises(c)
    \/ GetModel

Spec == Init /\ [][Next]_vars

(***************************************************************************)
(* Two calls on one handler that overlap in time.  The calls share only    *)
(* this.client, so the provider sends one kind of chunk here.              *)
(***************************************************************************)
InitOverlap ==
    /\ options \in {Config(None), Config(Some(100))}
    /\ client = None
    /\ built = 0
    /\ callers = Calls
    /\ upstream = {[message |-> Some([content |-> Some("Hi")]),
                    eval_count |-> Some(5), prompt_eval_count |-> Some(12)]}
    /\ pc = [c \in Calls |-> "idle"]
    /\ callNo = [c \in Calls |-> 0]
    /\ timer = [c \in Calls |-> "none"]
    /\ timerMs = [c \in Calls |-> None]
    /\ request = [c \in Calls |-> None]
    /\ api = [c \in Calls |-> "none"]
    /\ race = [c \in Calls |-> "none"]
    /\ stream = [c \in Calls |-> "none"]
    /\ consumed = [c \in Calls |-> <<>>]
    /\ delivered = [c \in Calls |-> <<>>]
    /\ discarded = [c \in Calls |-> 0]
    /\ streamError = [c \in Calls |-> None]
    /\ error = [c \in Calls |-> None]
    /\ thrown = [c \in Calls |-> None]
    /\ resolved = {}

SpecOverlap == InitOverlap /\ [][Next]_vars

(***************************************************************************)
(* The configurations of the context window and of the model id.  What is  *)
(* resolved and requested depends on the configuration alone, so the       *)
(* provider sends one kind of chunk here.                                  *)
(***************************************************************************)
\* values of ollamaApiOptionsCtxNum
CtxOverrides ==
    {None, Some(""), Some("8192"), Some("0"), Some("abc"), Some(" 42 "), Some("-5"),
     Some("12.5"), Some("8192abc")}

\* values of ollamaModelId
ModelIds == {None, Some(""), Some("llama3")}

ModelConfigs ==
    {[Config(None) EXCEPT !.ollamaApiOptionsCtxNum = x, !.ollamaModelId = m] :
        x \in CtxOverrides, m \in ModelIds}

InitConfig ==
    /\ options \in ModelConfigs
    /\ client = None
    /\ built = 0
    /\ callers = {"c1"}
    /\ upstream = {[message |-> Some([content |-> Some("Hi")]),
                    eval_count |-> Some(5), prompt_eval_count |-> Some(12)]}
    /\ pc = [c \in Calls |-> "idle"]
    /\ callNo = [c \in Calls |-> 0]
    /\ timer = [c \in Calls |-> "none"]
    /\ timerMs = [c \in Calls |-> None]
    /\ request = [c \in Calls |-> None]
    /\ api = [c \in Calls |-> "none"]
    /\ race = [c \in Calls |-> "none"]
    /\ stream = [c \in Calls |-> "none"]
    /\ consumed = [c \in Calls |-> <<>>]
    /\ delivered = [c \in Calls |-> <<>>]
    /\ discarded = [c \in Calls |-> 0]
    /\ streamError = [c \in Calls |-> None]
    /\ error = [c \in Calls |-> None]
    /\ thrown = [c \in Calls |-> None]
    /\ resolved = {}

SpecConfig == InitConfig /\ [][Next]_vars

(***************************************************************************)
(* Progress.  The timer of line 55 is never cleared, so its callback runs; *)
(* the caller keeps asking the generator for its next event; a stream that *)
(* was opened produces its next chunk, ends or raises.  Nothing makes the  *)
(* request of client.chat settle.                                          *)
(***************************************************************************)
InitLive ==
    /\ options \in {Config(None), Config(Some(100))}
    /\ client = None
    /\ built = 0
    /\ callers = {"c1"}
    /\ upstream = {[message |-> Some([content |-> Some("Hi")]),
                    eval_count |-> Some(5), prompt_eval_count |-> Some(12)],
                   [message |-> None, eval_count |-> None, prompt_eval_count |-> None]}
    /\ pc = [c \in Calls |-> "idle"]
    /\ callNo = [c \in Calls |-> 0]
    /\ timer = [c \in Calls |-> "none"]
    /\ timerMs = [c \in Calls |-> None]
    /\ request = [c \in Calls |-> None]
    /\ api = [c \in Calls |-> "none"]
    /\ race = [c \in Calls |-> "none"]
    /\ stream = [c \in Calls |-> "none"]
    /\ consumed = [c \in Calls |-> <<>>]
    /\ delivered = [c \in Calls |-> <<>>]
    /\ discarded = [c \in Calls |-> 0]
    /\ streamError = [c \in Calls |-> None]
    /\ error = [c \in Calls |-> None]
    /\ thrown = [c \in Calls |-> None]
    /\ resolved = {}

\* the stream the loop waits on produces a chunk, ends or raises
StreamSettles(c) == ChunkArrives(c) \/ StreamEnds(c) \/ StreamRaises(c)

Fairness ==
    \A c \in Calls :
        /\ WF_vars(TimerFires(c))
        /\ WF_vars(ResumeAfterText(c))
        /\ WF_vars(ResumeAfterUsage(c))
        /\ WF_vars(StreamSettles(c))

SpecLive == InitLive /\ [][Next]_vars /\ Fairness

(***************************************************************************)
(* Vocabulary of the properties                                            *)
(***************************************************************************)
IsPrefix(s, t) == Len(s) <= Len(t) /\ SubSeq(t, 1, Len(s)) = s

\* the error the caller receives on a timeout, for the configured duration
IsTimeoutError(e) ==
    /\ e.message # None
    /\ Includes(e.message[1], "Ollama request timed out after ")
    /\ ~Includes(e.message[1], "stream processing error")

\* the events the loop yields for one chunk, text before usage
EventsOf(ch) ==
    (IF ch.message # None /\ ch.message[1].content # None
     THEN <<[type |-> "text", text |-> ch.message[1].content[1]]>> ELSE <<>>)
    \o
    (IF ch.message # None /\ (ch.eval_count # None \/ ch.prompt_eval_count # None)
     THEN <<[type |-> "usage",
             inputTokens |-> IF ch.prompt_eval_count = None THEN 0
                             ELSE ch.prompt_eval_count[1],
             outputTokens |-> IF ch.eval_count = None THEN 0 ELSE ch.eval_count[1]]>>
     ELSE <<>>)

RECURSIVE EventsOfAll(_)
EventsOfAll(chs) ==
    IF chs = <<>> THEN <<>>
    ELSE EventsOfAll(SubSeq(chs, 1, Len(chs) - 1)) \o EventsOf(chs[Len(chs)])

(***************************************************************************)
(* C1: if the timer fires before the provider request settles, the call    *)
(* fails with the timeout error, no event is ever delivered for that call, *)
(* and the chunks the abandoned request produces later are never delivered.*)
(***************************************************************************)
\* C1: a race settled by the timer means a failed call with the timeout error
\* and nothing consumed or delivered, whatever the abandoned request does later
C1_TimerFirst ==
    \A c \in Calls :
        race[c] = "timer" =>
            /\ pc[c] = "failed"
            /\ thrown[c] # None
            /\ IsTimeoutError(thrown[c][1])
            /\ delivered[c] = <<>>
            /\ consumed[c] = <<>>

\* the timer won, and the abandoned request went on to produce chunks
C1_Witness ==
    \E c \in Calls :
        /\ race[c] = "timer"
        /\ api[c] = "resolved"
        /\ discarded[c] = MaxChunks
        /\ pc[c] = "failed"

(***************************************************************************)
(* C2: if the provider request settles before the timer fires, its outcome *)
(* is the one used; the timer firing later produces no timeout error,      *)
(* does not stop the delivery of events and does not change the outcome.   *)
(***************************************************************************)
C2_RequestFirstState ==
    \A c \in Calls :
        race[c] = "api" =>
            /\ error[c] # None => error[c][1].site # "L56"
            /\ api[c] = "rejected" =>
                  /\ pc[c] = "failed"
                  /\ error[c] # None /\ error[c][1] \in ApiErrors
                  /\ consumed[c] = <<>>
            /\ api[c] = "resolved" =>
                  /\ pc[c] = "failed" => streamError[c] # None
                  /\ pc[c] = "next" /\ stream[c] = "open" /\ Len(consumed[c]) < MaxChunks
                        => ENABLED ChunkArrives(c)

C2_TimerLaterStep ==
    \A c \in Calls :
        (race[c] = "api" /\ timer[c] = "armed" /\ timer'[c] = "fired")
            => /\ pc'[c] = pc[c]
               /\ thrown'[c] = thrown[c]
               /\ error'[c] = error[c]
               /\ delivered'[c] = delivered[c]
               /\ consumed'[c] = consumed[c]
               /\ race'[c] = race[c]
               /\ stream'[c] = stream[c]

\* C2: in every state the outcome of a race the request settled is the
\* request's, and no step in which the timer fires later changes the call
C2_RequestFirst == [](C2_RequestFirstState) /\ [][C2_TimerLaterStep]_vars

\* the timer fired while the chunks of the winning request were being
\* consumed, and the call went on to deliver an event afterwards
C2_Witness ==
    \E c \in Calls :
        /\ race[c] = "api"
        /\ timer[c] = "fired"
        /\ pc[c] = "done"
        /\ Len(delivered[c]) >= 2

(***************************************************************************)
(* C3: every error raised while an established chunk stream is consumed    *)
(* reaches the caller as the stream-processing error that carries the      *)
(* original message ("Unknown error" when there is none), never as another *)
(* kind of error.                                                          *)
(***************************************************************************)
\* the text the stream-processing error carries for the original error
OriginalText(e) ==
    IF e.message = None \/ e.message = Some("") THEN "Unknown error" ELSE e.message[1]

IsStreamProcessingErrorOf(t, e) ==
    t.message = Some("Ollama stream processing error: " \o OriginalText(e))

\* C3 as stated: the caller receives the stream-processing error whatever the
\* message text of the original error
C3_AlwaysStreamProcessingError ==
    \A c \in Calls :
        streamError[c] # None =>
            /\ pc[c] = "failed"
            /\ thrown[c] # None
            /\ IsStreamProcessingErrorOf(thrown[c][1], streamError[c][1])

\* C3 as amended: the caller receives the stream-processing error unless the
\* original message contains "timed out"; then it receives the timeout error
C3_StreamProcessingErrorUnlessTimedOut ==
    \A c \in Calls :
        streamError[c] # None =>
            /\ pc[c] = "failed"
            /\ thrown[c] # None
            /\ IF streamError[c][1].message # None
                  /\ Includes(streamError[c][1].message[1], "timed out")
               THEN IsTimeoutError(thrown[c][1])
               ELSE IsStreamProcessingErrorOf(thrown[c][1], streamError[c][1])

\* the stream raised an error without a message after a chunk, and the
\* caller received the stream-processing error with "Unknown error"
C3_Witness ==
    \E c \in Calls :
        /\ stream[c] = "raised"
        /\ streamError[c] # None /\ streamError[c][1].message = None
        /\ Len(consumed[c]) > 0
        /\ thrown[c] # None
        /\ thrown[c][1].message = Some("Ollama stream processing error: Unknown error")

(***************************************************************************)
(* C4: when the chunk stream raises after k chunks have been consumed, the *)
(* events of those k chunks have all been delivered before the error, and  *)
(* no event is delivered after the error.                                  *)
(***************************************************************************)
C4_AllDeliveredAtError ==
    \A c \in Calls :
        streamError[c] # None => delivered[c] = EventsOfAll(consumed[c])

C4_NothingAfterErrorStep ==
    \A c \in Calls :
        (streamError[c] # None /\ callNo'[c] = callNo[c])
            => /\ delivered'[c] = delivered[c]
               /\ consumed'[c] = consumed[c]
               /\ pc'[c] = "failed"

\* C4: at the error every event of the consumed chunks has been delivered,
\* and no step after it delivers an event
C4_EventsBeforeError == [](C4_AllDeliveredAtError) /\ [][C4_NothingAfterErrorStep]_vars

\* the stream raised after two chunks whose events (three or more) were delivered
C4_Witness ==
    \E c \in Calls :
        /\ stream[c] = "raised"
        /\ Len(consumed[c]) = 2
        /\ Len(delivered[c]) >= 3
        /\ pc[c] = "failed"

(***************************************************************************)
(* C5: for every chunk, a text event is emitted if and only if the content *)
(* of the chunk is a non-empty string, and then exactly one, carrying that *)
(* text; a chunk whose content is "" or absent yields no text event.       *)
(***************************************************************************)
\* the content of a chunk, when it is a non-empty string
NonEmptyContent(ch) ==
    IF ch.message # None /\ ch.message[1].content # None /\ ch.message[1].content[1] # ""
    THEN <<ch.message[1].content[1]>> ELSE <<>>

RECURSIVE NonEmptyContents(_)
NonEmptyContents(chs) ==
    IF chs = <<>> THEN <<>>
    ELSE NonEmptyContents(SubSeq(chs, 1, Len(chs) - 1)) \o NonEmptyContent(chs[Len(chs)])

RECURSIVE TextsOf(_)
TextsOf(evs) ==
    IF evs = <<>> THEN <<>>
    ELSE TextsOf(SubSeq(evs, 1, Len(evs) - 1))
         \o (IF evs[Len(evs)].type = "text" THEN <<evs[Len(evs)].text>> ELSE <<>>)

\* C5: the texts delivered are exactly the non-empty contents of the chunks
\* consumed, one text event for each
C5_TextIffNonEmptyContent ==
    \A c \in Calls : TextsOf(delivered[c]) = NonEmptyContents(consumed[c])

(***************************************************************************)
(* C6: for every chunk, a usage event is emitted if and only if at least   *)
(* one of the two token counts is defined on it, and then exactly one,     *)
(* with inputTokens the prompt count and outputTokens the completion       *)
(* count, 0 standing for an absent count.                                  *)
(***************************************************************************)
UsageOf(ch) ==
    IF ch.eval_count # None \/ ch.prompt_eval_count # None
    THEN <<[type |-> "usage",
            inputTokens |-> IF ch.prompt_eval_count = None THEN 0
                            ELSE ch.prompt_eval_count[1],
            outputTokens |-> IF ch.eval_count = None THEN 0 ELSE ch.eval_count[1]]>>
    ELSE <<>>

RECURSIVE UsagesOf(_)
UsagesOf(chs) ==
    IF chs = <<>> THEN <<>>
    ELSE UsagesOf(SubSeq(chs, 1, Len(chs) - 1)) \o UsageOf(chs[Len(chs)])

RECURSIVE UsageEvents(_)
UsageEvents(evs) ==
    IF evs = <<>> THEN <<>>
    ELSE UsageEvents(SubSeq(evs, 1, Len(evs) - 1))
         \o (IF evs[Len(evs)].type = "usage" THEN <<evs[Len(evs)]>> ELSE <<>>)

\* C6: once the loop is done with the chunks consumed so far, the usage events
\* delivered are exactly those of the chunks that define a token count
C6_UsageIffCountDefined ==
    \A c \in Calls :
        pc[c] \in {"next", "done", "failed"} =>
            UsageEvents(delivered[c]) = UsagesOf(consumed[c])

(***************************************************************************)
(* C7: translating a chunk never fails because of absent fields: whatever  *)
(* fields are present or absent, the chunk yields zero, one or two events  *)
(* and the stream goes on to the next chunk without an error.              *)
(***************************************************************************)
\* C7: the only errors of the loop are those the stream itself raised: the
\* translation of a chunk raises none
C7_TranslationNeverFails ==
    \A c \in Calls :
        streamError[c] # None =>
            /\ stream[c] = "raised"
            /\ streamError[c][1] \in StreamErrors

(***************************************************************************)
(* C8: at every point of a call the events delivered so far are the        *)
(* in-order concatenation of the translations of the chunks consumed so    *)
(* far: chunk order is kept, text comes before usage within a chunk, and   *)
(* no event of a chunk precedes an event of an earlier chunk.              *)
(***************************************************************************)
\* C8: delivered is a prefix of the events of the consumed chunks in order
\* that holds every event of all chunks but the last
C8_DeliveredInChunkOrder ==
    \A c \in Calls :
        LET n == Len(consumed[c])
        IN  /\ IsPrefix(delivered[c], EventsOfAll(consumed[c]))
            /\ n > 0 => IsPrefix(EventsOfAll(SubSeq(consumed[c], 1, n - 1)), delivered[c])
            /\ pc[c] \in {"next", "done"} => delivered[c] = EventsOfAll(consumed[c])

\* two chunks that each carry a text and a usage: four events in order
C8_Witness ==
    \E c \in Calls :
        /\ Len(consumed[c]) = 2
        /\ Len(delivered[c]) = 4
        /\ delivered[c][1].type = "text" /\ delivered[c][2].type = "usage"
        /\ delivered[c][3].type = "text" /\ delivered[c][4].type = "usage"

(***************************************************************************)
(* C9: createMessage never ends as a silently truncated success: it        *)
(* returns normally only when the chunk stream is exhausted and every      *)
(* chunk has been translated; a failure of client creation, of the         *)
(* request, of the timer or of the stream ends it with a thrown error.     *)
(***************************************************************************)
C9_DoneOnlyWhenExhausted ==
    \A c \in Calls :
        /\ pc[c] = "done" =>
              /\ stream[c] = "ended"
              /\ race[c] = "api" /\ api[c] = "resolved"
              /\ streamError[c] = None /\ error[c] = None /\ thrown[c] = None
              /\ delivered[c] = EventsOfAll(consumed[c])
        /\ (\/ race[c] = "timer"
            \/ (race[c] = "api" /\ api[c] = "rejected")
            \/ stream[c] = "raised"
            \/ streamError[c] # None)
              => pc[c] = "failed" /\ thrown[c] # None

\* a call that starts and leaves the client cache empty failed to create the client
C9_ClientFailureStep ==
    \A c \in Calls :
        (callNo'[c] = callNo[c] + 1 /\ client' = None)
            => pc'[c] = "failed" /\ thrown'[c] # None

\* C9: a normal end only after the stream is exhausted and translated; every
\* failure, that of client creation included, ends with a thrown error
C9_NoTruncatedSuccess == [](C9_DoneOnlyWhenExhausted) /\ [][C9_ClientFailureStep]_vars

\* a normal end after two chunks, all of whose events were delivered
C9_Witness ==
    \E c \in Calls :
        /\ pc[c] = "done"
        /\ Len(consumed[c]) = 2
        /\ Len(delivered[c]) >= 3

(***************************************************************************)
(* C10: the timer is started with 30000 ms when requestTimeoutMs is unset  *)
(* and with t ms when it is set to t; the message of the timeout error     *)
(* reports t/1000 seconds, the duration the timer was started with.        *)
(***************************************************************************)
\* t/1000 as JavaScript prints it, for the durations of Configs
SecondsOf(ms) ==
    CASE ms = 0 -> "0"
      [] ms = 100 -> "0.1"
      [] ms = 1500 -> "1.5"
      [] ms = 30000 -> "30"

ReportsSeconds(e, ms) ==
    e.message = Some("Ollama request timed out after " \o SecondsOf(ms) \o " seconds")

\* C10 as stated: the timer is started with the configured t for every t, with
\* 30000 when unset, and the timeout error reports that duration in seconds
C10_TimerIsConfiguredValue ==
    \A c \in Calls :
        timerMs[c] # None =>
            /\ timerMs[c][1] = IF options.requestTimeoutMs = None THEN 30000
                               ELSE options.requestTimeoutMs[1]
            /\ race[c] = "timer" => ReportsSeconds(thrown[c][1], timerMs[c][1])

\* C10 as amended: a requestTimeoutMs of 0 counts as unset; the timeout error
\* reports the duration the timer was started with, in seconds
C10_TimerIsConfiguredValueOrDefault ==
    \A c \in Calls :
        timerMs[c] # None =>
            /\ timerMs[c][1] = IF options.requestTimeoutMs \in {None, Some(0)} THEN 30000
                               ELSE options.requestTimeoutMs[1]
            /\ race[c] = "timer" => ReportsSeconds(thrown[c][1], timerMs[c][1])

\* a timer of 100 ms fired first and the error reports 0.1 seconds
C10_Witness ==
    \E c \in Calls :
        /\ options.requestTimeoutMs = Some(100)
        /\ timerMs[c] = Some(100)
        /\ race[c] = "timer"
        /\ thrown[c] # None
        /\ thrown[c][1].message = Some("Ollama request timed out after 0.1 seconds")

(***************************************************************************)
(* C11: with a context-window override configured,                         *)
(* getModel().info.contextWindow is the parsed integer value of the        *)
(* override (8192 for "8192"), and 32768 when parsing it fails or yields   *)
(* zero or NaN.                                                            *)
(***************************************************************************)
\* a number that is an integer
IsInteger(n) == ~n.nan /\ n.milli % 1000 = 0

\* the integer an override is written as, for the overrides of CtxOverrides
\* that are written as a non-zero integer
WrittenInteger(x) ==
    CASE x = "8192" -> <<8192>>
      [] x = " 42 " -> <<42>>
      [] x = "-5" -> <<0 - 5>>
      [] OTHER -> <<>>

\* C11: the context window of a configured override is an integer: the one the
\* override is written as, and 32768 when the override is no number or is zero
C11_ContextWindowIsParsedInteger ==
    \A r \in resolved :
        TruthyStr(options.ollamaApiOptionsCtxNum) =>
            /\ IsInteger(r.info.contextWindow)
            /\ LET w == WrittenInteger(options.ollamaApiOptionsCtxNum[1])
               IN  IF w # <<>> THEN r.info.contextWindow = Dec(1000 * w[1])
                   ELSE options.ollamaApiOptionsCtxNum[1] \in {"0", "abc", "8192abc"}
                           => r.info.contextWindow = Dec(32768000)

(***************************************************************************)
(* C12: with the context-window override absent or non-numeric,            *)
(* getModel().info.contextWindow is the fixed default 32768.               *)
(***************************************************************************)
\* C12: an absent override and an override that is no number resolve to 32768
C12_DefaultContextWindow ==
    \A r \in resolved :
        options.ollamaApiOptionsCtxNum \in {None, Some("abc"), Some("8192abc")}
            => r.info.contextWindow = Dec(32768000)

\* getModel returned for a non-numeric override
C12_Witness ==
    /\ options.ollamaApiOptionsCtxNum = Some("abc")
    /\ \E r \in resolved : r.info.contextWindow = Dec(32768000)

(***************************************************************************)
(* C13: getModel is a pure function of the configuration: any two calls on *)
(* one handler, with any createMessage calls in between, return equal      *)
(* results; it changes no state of the handler (the cached client stays as *)
(* it was); its id is the configured model id, or "" when unset.           *)
(***************************************************************************)
C13_OneResult ==
    /\ Cardinality(resolved) <= 1
    /\ \A r \in resolved :
          r.id = IF options.ollamaModelId = None THEN "" ELSE options.ollamaModelId[1]

C13_NoEffectStep ==
    resolved' # resolved => UNCHANGED <<options, client, built, callVars>>

\* C13: all results getModel ever returned on a handler are one and the same,
\* with the configured id, and a step of getModel changes nothing else
C13_GetModelIsPure == [](C13_OneResult) /\ [][C13_NoEffectStep]_vars

\* getModel has returned, and two createMessage calls have run, the second to
\* its normal end with the client cached
C13_Witness ==
    /\ resolved # {}
    /\ options.ollamaModelId = Some("llama3")
    /\ client # None
    /\ callNo["c1"] = 2
    /\ pc["c1"] = "done"

(***************************************************************************)
(* C17: for every configuration (override absent, numeric, zero or         *)
(* non-numeric) the num_ctx option that createMessage sends in the         *)
(* provider request equals the contextWindow that getModel() returns.      *)
(***************************************************************************)
\* C17: every request sent carries as num_ctx the context window of every
\* result getModel returned
C17_NumCtxIsContextWindow ==
    \A c \in Calls : \A r \in resolved :
        request[c] # None => request[c][1].options.num_ctx = r.info.contextWindow

\* a request was sent and getModel returned under an override of zero
C17_Witness ==
    \E c \in Calls :
        /\ options.ollamaApiOptionsCtxNum = Some("0")
        /\ request[c] # None
        /\ resolved # {}
        /\ request[c][1].options.num_ctx = Dec(32768000)

(***************************************************************************)
(* C14: every failure that createMessage propagates, whether raised by     *)
(* client creation, by the race or by the stream, has passed through the   *)
(* classification of the outer catch; a failure whose message marks a      *)
(* timeout reaches the caller as the timeout error whichever component     *)
(* raised it.                                                              *)
(***************************************************************************)
\* C14: every error thrown to the caller was caught by the outer catch, and an
\* error thrown to the caller whose message contains "timed out" is the
\* timeout error
C14_EveryFailureClassified ==
    \A c \in Calls :
        thrown[c] # None =>
            /\ error[c] # None
            /\ Includes(thrown[c][1].message[1], "timed out") => IsTimeoutError(thrown[c][1])

(***************************************************************************)
(* C15: the classification maps a failure to exactly one outcome: a        *)
(* failure whose message marks a timeout becomes the timeout error, with   *)
(* the duration computed again from the configuration; any other failure   *)
(* is thrown as the very same error, unchanged.                            *)
(***************************************************************************)
\* the duration in force for the configuration of the handler
ConfiguredMs ==
    IF options.requestTimeoutMs \in {None, Some(0)} THEN 30000
    ELSE options.requestTimeoutMs[1]

MarksTimeout(e) == e.message # None /\ Includes(e.message[1], "timed out")

\* C15: what the outer catch caught decides what the caller receives: the
\* timeout error for the configured duration when the message contains
\* "timed out", the caught error itself otherwise
C15_ClassificationIsTotal ==
    \A c \in Calls :
        error[c] # None =>
            /\ thrown[c] # None
            /\ IF MarksTimeout(error[c][1])
               THEN /\ ReportsSeconds(thrown[c][1], ConfiguredMs)
                    /\ thrown[c][1].status = None
               ELSE thrown[c] = error[c]

\* a rejection of the request with status 500 reached the caller as it was
C15_Witness ==
    \E c \in Calls :
        /\ error[c] = Some(Err(Some("fetch failed"), Some(500), "api"))
        /\ thrown[c] = error[c]
        /\ pc[c] = "failed"

(***************************************************************************)
(* C19: when the construction of the client throws, the call fails with    *)
(* the connection error, whose message includes the cause; no request is   *)
(* issued and no timer is started, and the client cache stays empty, so    *)
(* the next call attempts the construction again.                          *)
(***************************************************************************)
IsConnectionError(e) ==
    /\ e.message # None
    /\ Len(e.message[1]) >= 30
    /\ SubSeq(e.message[1], 1, 30) = "Error creating Ollama client: "

FailedToConnect(c) == thrown[c] # None /\ IsConnectionError(thrown[c][1])

C19_NothingStarted ==
    \A c \in Calls :
        FailedToConnect(c) =>
            /\ pc[c] = "failed"
            /\ \E cause \in {"undefined", "Invalid URL", "connect timed out"} :
                  thrown[c][1].message[1] = "Error creating Ollama client: " \o cause
            /\ request[c] = None
            /\ api[c] = "none"
            /\ timer[c] = "none"
            /\ client = None
            /\ built = 0

C19_NextCallConstructsStep ==
    \A c \in Calls :
        FailedToConnect(c) /\ callNo'[c] # callNo[c] =>
            \/ built' = built + 1 /\ client' # None
            \/ FailedToConnect(c)' /\ client' = None

\* C19: a call on which the construction threw has failed with the connection
\* error, has sent no request and started no timer, and has left the cache
\* empty; the next call constructs a client or fails in the same way
C19_FailedConstructionLeavesNothing ==
    [](C19_NothingStarted) /\ [][C19_NextCallConstructsStep]_vars

\* the construction threw on a first call and again on the second
C19_Witness ==
    \E c \in Calls :
        /\ callNo[c] = 2
        /\ FailedToConnect(c)
        /\ thrown[c][1].message = Some("Error creating Ollama client: Invalid URL")
        /\ client = None

(***************************************************************************)
(* C16: over any interleaving of createMessage calls on one handler,       *)
(* overlapping ones included, the cached client is written at most once:   *)
(* after the first successful construction no second client is made.       *)
(***************************************************************************)
C16_AtMostOneClient ==
    /\ built <= 1
    /\ client # None <=> built = 1
    /\ client # None => client[1].id = 1

C16_CacheKeptStep == client # None => client' = client /\ built' = built

\* C16: at most one client is ever constructed, and once the cache holds a
\* client no step changes it
C16_ClientWrittenOnce == [](C16_AtMostOneClient) /\ [][C16_CacheKeptStep]_vars

\* two calls are in flight at once on the one client, one of them the second
\* call of its caller
C16_Witness ==
    /\ built = 1
    /\ client # None
    /\ pc["c1"] \in {"race", "next", "text", "usage"}
    /\ pc["c2"] \in {"race", "next", "text", "usage"}
    /\ callNo["c1"] = 2

(***************************************************************************)
(* C18: with a timer that fires and a caller that keeps consuming, every   *)
(* call reaches a terminal state (normal end or failure) whenever its      *)
(* stream ends or raises; a call whose request never settles fails with    *)
(* the timeout error.                                                      *)
(***************************************************************************)
InProgress(c) == pc[c] \in {"race", "next", "text", "usage"}

Terminal(c) == pc[c] \in {"done", "failed"}

TimedOut(c) ==
    /\ pc[c] = "failed"
    /\ race[c] = "timer"
    /\ thrown[c] # None
    /\ IsTimeoutError(thrown[c][1])

\* C18: every call in progress ends, normally or with an error; a call
\* waiting for its request sees the request settle or fails with the timeout
\* error
C18_EveryCallTerminates ==
    \A c \in Calls :
        /\ InProgress(c) ~> Terminal(c)
        /\ (pc[c] = "race") ~> (api[c] # "pending" \/ TimedOut(c))

\* a call failed with the timeout error of 0.1 seconds while its request was
\* still pending
C18_Witness ==
    \E c \in Calls :
        /\ TimedOut(c)
        /\ api[c] = "pending"
        /\ timerMs[c] = Some(100)

====
